---------------------------- MODULE Spec2Model ----------------------------
(***************************************************************************)
(* Model of glueckf/kraken_analyzer: the experiment-period registry        *)
(* (scripts/experiment_manager.py), the snapshot ingest / dedup pipeline   *)
(* (scripts/ingest.py) and the label repair tool                           *)
(* (scripts/fix_experiment_labels.py).                                     *)
(*                                                                         *)
(* Representation.                                                         *)
(*  - An instant is an integer (one unit = one hour, UTC).  Normalising a  *)
(*    datetime to UTC keeps its instant; a CET wall-clock value w is the   *)
(*    instant w - CetOffset.                                               *)
(*  - A timestamp STRING is a record [dsep, tsep, t]: the separator used   *)
(*    in its date part, the separator used in its time part, and the       *)
(*    instant its digits spell.  "2025-09-08T10-15-30Z" (file name) is     *)
(*    [dsep |-> "-", tsep |-> "-"], "2025:09:08T10:15:30Z" (synced_at) is  *)
(*    [dsep |-> ":", tsep |-> ":"], ISO-8601 is [dsep |-> "-", tsep |->    *)
(*    ":"].  Parsers are modelled by the formats they accept.              *)
(*  - A cell value is an integer: Null (NaN / empty cell), v > 0 a number, *)
(*    v < 0 a non-numeric text.                                            *)
(*  - A snapshot file is [name, rows, readable]; its name is the stamp     *)
(*    string between "run_results." and ".csv".                            *)
(***************************************************************************)
EXTENDS Integers, Sequences, FiniteSets, TLC

VARIABLES
    snapshots,    \* the snapshot directory: files in modification-time order
    curated,      \* the curated artifact: [exists, rows]
    periods_doc,  \* the persisted registry document: [exists, periods, complete]
    periods,      \* ExperimentPeriodManager._periods of the manager process
    backups,      \* number of backup artifacts created so far
    repairs,      \* number of runs of the repair tool so far
    run           \* record of the last command that ran

vars == <<snapshots, curated, periods_doc, periods, backups, repairs, run>>

----------------------------------------------------------------------------
(* Bounds of the model *)

MaxTime == 2
MaxFiles == 2
MaxRepairs == 1
MaxBatchFiles == 3

Times == 0..MaxTime

(* Program constants *)

Null == 0
CetOffset == 1
Epoch2025 == 1

(* the labels a document may hold, in lexicographic order, and the labels  *)
(* the commands are given                                                  *)
LabelOrder == <<"expA", "expB", "expC">>
Labels == {"expA", "expB"}
UnknownLabel == "unknown"
SchemaVersions == {"v1"}

(* configs/sources.yaml as loaded by load_config: the configured label,    *)
(* schema version, source name and analysis.required_columns.              *)
ConfigLabel == "expB"
ConfigSchemaVersion == "v1"
ConfigSource == "cloud-11"
FallbackColumns == <<"kraken_cost">>

NoEnd == <<>>

----------------------------------------------------------------------------
(* Generic sequence helpers *)

Range(s) == {s[i] : i \in DOMAIN s}

(* the subsequence of s at the indices in keep, in order *)
KeepIdx(s, keep) ==
    LET F[i \in 0..Len(s)] ==
            IF i = 0 THEN <<>>
            ELSE IF i \in keep THEN Append(F[i - 1], s[i]) ELSE F[i - 1]
    IN  F[Len(s)]

RECURSIVE Flatten(_)
Flatten(ss) == IF ss = <<>> THEN <<>> ELSE Head(ss) \o Flatten(Tail(ss))

(* the indices in S ordered by val ascending, ties in index order *)
RECURSIVE AscendingIdx(_, _)
AscendingIdx(S, val) ==
    IF S = {} THEN <<>>
    ELSE LET m == CHOOSE i \in S :
                    \A j \in S : val[i] < val[j] \/ (val[i] = val[j] /\ i <= j)
         IN  <<m>> \o AscendingIdx(S \ {m}, val)

----------------------------------------------------------------------------
(* Timestamp strings and their parsers *)

(* timezone_utils.format_timestamp_for_filename: "%Y-%m-%dT%H-%M-%SZ" *)
StampOfInstant(t) == [dsep |-> "-", tsep |-> "-", t |-> t]

NoStamp == [dsep |-> "", tsep |-> "", t |-> 0]

(* str.replace("-", ":") on the stamp between "run_results." and ".csv" *)
extract_timestamp_from_filename(name) ==
    [name EXCEPT !.dsep = IF @ = "-" THEN ":" ELSE @,
                 !.tsep = IF @ = "-" THEN ":" ELSE @]

(* str.count(":") > 2 and replace(":", "-", 2): a string whose date part   *)
(* is colon-separated has four colons; its first two become dashes.        *)
FixDateColons(s) ==
    IF s.dsep = ":" /\ s.tsep = ":" THEN [s EXCEPT !.dsep = "-"] ELSE s

(* datetime.fromisoformat accepts YYYY-MM-DDTHH:MM:SS only *)
IsIsoFormat(s) == s.dsep = "-" /\ s.tsep = ":"

parse_timestamp_for_labeling(s) ==
    LET fixed == FixDateColons(s)
    IN  [ok |-> IsIsoFormat(fixed), t |-> fixed.t]

parse_timestamp(s) ==
    LET fixed == FixDateColons(s)
    IN  [ok |-> IsIsoFormat(fixed), t |-> fixed.t]

(* pd.to_datetime(errors="coerce"): an ISO-8601 string parses, anything    *)
(* else (a colon-separated date part among them) becomes NaT.              *)
ToDatetimeCoerce(s) ==
    IF IsIsoFormat(s) THEN [nat |-> FALSE, t |-> s.t] ELSE [nat |-> TRUE, t |-> 0]

(* lexicographic order of two timestamp strings of the same format *)
SyncedAtLess(a, b) == a.t < b.t

(* convert_cet_to_utc / the UTC default of the cutoff argument *)
CutoffInstant(wall, tz) == IF tz = "CET" THEN wall - CetOffset ELSE wall

----------------------------------------------------------------------------
(* ExperimentPeriodManager: the mapping is an insertion-ordered sequence   *)
(* of [label, start_time, end_time, schema_version]; end_time is NoEnd or  *)
(* <<t>>.                                                                  *)

Period(label, start, schema_version, end) ==
    [label |-> label, start_time |-> start, end_time |-> end,
     schema_version |-> schema_version]

HasLabel(ps, label) == \E i \in DOMAIN ps : ps[i].label = label

IndexOfLabel(ps, label) == CHOOSE i \in DOMAIN ps : ps[i].label = label

LabelRank(label) == CHOOSE i \in DOMAIN LabelOrder : LabelOrder[i] = label

(* PeriodContains with the end instant taken as part of the period *)
PeriodContainsEndInclusive(p, t) ==
    /\ ~(t < p.start_time)
    /\ (p.end_time # NoEnd => ~(t > p.end_time[1]))

(* the loop body of get_experiment_for_timestamp: the two "continue"s *)
PeriodContains(p, t) ==
    /\ ~(t < p.start_time)
    /\ (p.end_time # NoEnd => ~(t >= p.end_time[1]))

(* get_experiment_for_timestamp preferring the period that started last *)
ResolveLatestStart(ps, t) ==
    LET hits == {i \in DOMAIN ps : PeriodContains(ps[i], t)}
    IN  IF hits = {} THEN UnknownLabel
        ELSE ps[CHOOSE i \in hits :
                    \A j \in hits : ps[j].start_time <= ps[i].start_time].label

get_experiment_for_timestamp(ps, t) ==
    LET hits == {i \in DOMAIN ps : PeriodContains(ps[i], t)}
    IN  IF hits = {} THEN UnknownLabel
        ELSE ps[CHOOSE i \in hits : \A j \in hits : i <= j].label

(* dict assignment: an existing key keeps its position, a new key is last *)
DictSet(ps, p) ==
    IF HasLabel(ps, p.label)
    THEN [ps EXCEPT ![IndexOfLabel(ps, p.label)] = p]
    ELSE Append(ps, p)

(* json.dump(sort_keys=True): the document lists the labels sorted *)
SortByLabel(ps) ==
    LET perm == AscendingIdx(DOMAIN ps, [i \in DOMAIN ps |-> LabelRank(ps[i].label)])
    IN  [k \in 1..Len(ps) |-> ps[perm[k]]]

(* a file that is not a whole JSON document makes json.load raise, and    *)
(* the mapping is then empty                                               *)
_load_periods(doc) == IF doc.exists /\ doc.complete THEN doc.periods ELSE <<>>

_save_periods(ps) == [exists |-> TRUE, periods |-> SortByLabel(ps), complete |-> TRUE]

(* register_new_experiment keeping the end the label had when none is given *)
RegisterKeepsOldEnd(ps, label, start, schema_version, end) ==
    IF HasLabel(ps, label) /\ end = NoEnd
    THEN DictSet(ps, Period(label, start, schema_version,
                            ps[IndexOfLabel(ps, label)].end_time))
    ELSE DictSet(ps, Period(label, start, schema_version, end))

register_new_experiment(ps, label, start, schema_version, end) ==
    DictSet(ps, Period(label, start, schema_version, end))

(* astimezone(timezone.utc) of an aware datetime, replace(tzinfo=utc) of   *)
(* a naive one: the instant of a wall-clock time given with a zone         *)
ToUtc(wall, tz) == IF tz = "CET" THEN wall - CetOffset ELSE wall

(* close_experiment_period leaving an end the period already has *)
CloseKeepsEarlierEnd(ps, label, end) ==
    IF ~HasLabel(ps, label)
    THEN [raised |-> TRUE, periods |-> ps, saved |-> FALSE]
    ELSE IF ps[IndexOfLabel(ps, label)].end_time # NoEnd
         THEN [raised |-> FALSE, periods |-> ps, saved |-> TRUE]
         ELSE [raised |-> FALSE,
               periods |-> [ps EXCEPT ![IndexOfLabel(ps, label)].end_time = <<end>>],
               saved |-> TRUE]

(* close_experiment_period creating the period of an unknown label *)
CloseCreatesMissing(ps, label, end) ==
    IF ~HasLabel(ps, label)
    THEN [raised |-> FALSE,
          periods |-> Append(ps, Period(label, end, "v1", <<end>>)),
          saved |-> TRUE]
    ELSE [raised |-> FALSE,
          periods |-> [ps EXCEPT ![IndexOfLabel(ps, label)].end_time = <<end>>],
          saved |-> TRUE]

(* [raised, periods, saved]: the ValueError of an unknown label, the       *)
(* mapping afterwards and whether _save_periods was called                *)
close_experiment_period(ps, label, end) ==
    IF ~HasLabel(ps, label)
    THEN [raised |-> TRUE, periods |-> ps, saved |-> FALSE]
    ELSE [raised |-> FALSE,
          periods |-> [ps EXCEPT ![IndexOfLabel(ps, label)].end_time = <<end>>],
          saved |-> TRUE]

(* validate_periods passing over an ongoing period without a warning *)
ValidateSkipsOngoing(ps) ==
    LET perm == AscendingIdx(DOMAIN ps, [i \in DOMAIN ps |-> ps[i].start_time])
        sorted == [k \in 1..Len(ps) |-> ps[perm[k]]]
        warn(k) ==
            IF sorted[k].end_time = NoEnd
            THEN <<>>
            ELSE IF sorted[k].end_time[1] > sorted[k + 1].start_time
                 THEN <<[kind |-> "overlap", a |-> sorted[k].label, b |-> sorted[k + 1].label]>>
                 ELSE <<>>
    IN  Flatten([k \in 1..(Len(ps) - 1) |-> warn(k)])

(* validate_periods warning also when a period ends where the next starts *)
ValidateTouchingOverlaps(ps) ==
    LET perm == AscendingIdx(DOMAIN ps, [i \in DOMAIN ps |-> ps[i].start_time])
        sorted == [k \in 1..Len(ps) |-> ps[perm[k]]]
        warn(k) ==
            IF sorted[k].end_time = NoEnd
            THEN <<[kind |-> "may_overlap", a |-> sorted[k].label, b |-> sorted[k + 1].label]>>
            ELSE IF sorted[k].end_time[1] >= sorted[k + 1].start_time
                 THEN <<[kind |-> "overlap", a |-> sorted[k].label, b |-> sorted[k + 1].label]>>
                 ELSE <<>>
    IN  Flatten([k \in 1..(Len(ps) - 1) |-> warn(k)])

(* validate_periods: the warnings, one per adjacent pair that has one *)
validate_periods(ps) ==
    LET perm == AscendingIdx(DOMAIN ps, [i \in DOMAIN ps |-> ps[i].start_time])
        sorted == [k \in 1..Len(ps) |-> ps[perm[k]]]
        warn(k) ==
            IF sorted[k].end_time = NoEnd
            THEN <<[kind |-> "may_overlap", a |-> sorted[k].label, b |-> sorted[k + 1].label]>>
            ELSE IF sorted[k].end_time[1] > sorted[k + 1].start_time
                 THEN <<[kind |-> "overlap", a |-> sorted[k].label, b |-> sorted[k + 1].label]>>
                 ELSE <<>>
    IN  Flatten([k \in 1..(Len(ps) - 1) |-> warn(k)])

----------------------------------------------------------------------------
(* Rows.  A raw CSV row has the domain columns; ingest adds the metadata   *)
(* columns.                                                                *)

RawRow(kid, iid, cost) ==
    [kraken_simulation_id |-> kid, ines_simulation_id |-> iid, kraken_cost |-> cost]

DomainColumns ==
    {"kraken_simulation_id", "ines_simulation_id", "kraken_cost", "ines_cost"}
TextColumns == {"experiment_label", "schema_version", "source"}
StampColumns == {"snapshot_file", "synced_at"}
AllColumns == DomainColumns \cup TextColumns \cup StampColumns

(* the columns in the lexicographic order of their "column=" strings *)
ColumnOrder == <<"experiment_label", "ines_cost", "ines_simulation_id", "kraken_cost",
                 "kraken_simulation_id", "schema_version", "snapshot_file",
                 "source", "synced_at">>
ColumnRank(c) == CHOOSE i \in DOMAIN ColumnOrder : ColumnOrder[i] = c

(* pd.notna of a cell; the metadata columns always hold a string *)
NotNa(row, c) == IF c \in DomainColumns THEN row[c] # Null ELSE TRUE

(* the string f"{col}={row[col]}" *)
ColumnValue(row, c) ==
    [col |-> c,
     num |-> IF c \in DomainColumns THEN row[c] ELSE 0,
     txt |-> IF c \in TextColumns THEN row[c] ELSE "",
     ts  |-> IF c \in StampColumns THEN row[c] ELSE NoStamp]

(* numeric_patterns: the columns whose lower-cased name contains "cost",   *)
(* "latency", "size", "time", "rate", "count" or "id"                      *)
NumericPatternColumns ==
    {"kraken_simulation_id", "ines_simulation_id", "kraken_cost", "ines_cost"}

(* pd.to_numeric(errors="coerce"): a non-numeric text becomes NaN *)
ToNumericCoerce(v) == IF v < 0 THEN Null ELSE v

normalize_numeric_columns(rows) ==
    [i \in DOMAIN rows |->
        [c \in DOMAIN rows[i] |->
            IF c \in NumericPatternColumns THEN ToNumericCoerce(rows[i][c])
            ELSE rows[i][c]]]

----------------------------------------------------------------------------
(* generate_dedup_key *)

primary_keys == <<"experiment_label", "kraken_simulation_id", "ines_simulation_id">>

(* the columns of cols (a sequence) that are in the row and not null *)
PresentColumns(row, cols) ==
    KeepIdx(cols, {i \in DOMAIN cols : cols[i] \in DOMAIN row /\ NotNa(row, cols[i])})

(* the values joined in the order they were collected *)
UnsortedValues(vals) == vals

(* sorted(values): the strings in lexicographic order *)
SortedValues(vals) ==
    LET perm == AscendingIdx(DOMAIN vals, [i \in DOMAIN vals |-> ColumnRank(vals[i].col)])
    IN  [k \in 1..Len(vals) |-> vals[perm[k]]]

(* the columns of the row that start with none of "experiment_",          *)
(* "schema_", "source", "synced_at", in the order of the row's index      *)
NonMetadataColumns(row) ==
    KeepIdx(ColumnOrder,
            {i \in DOMAIN ColumnOrder :
                /\ ColumnOrder[i] \in DOMAIN row
                /\ ColumnOrder[i] \notin {"experiment_label", "schema_version",
                                           "source", "synced_at"}})

(* generate_dedup_key trying the fallback columns before the primary keys *)
DedupKeyFallbackFirst(row, fallback_columns) ==
    LET key_cols == PresentColumns(row, primary_keys)
        key_parts == [i \in DOMAIN key_cols |-> ColumnValue(row, key_cols[i])]
        fb_cols == PresentColumns(row, fallback_columns)
        fallback_values == [i \in DOMAIN fb_cols |-> ColumnValue(row, fb_cols[i])]
    IN  IF fallback_values # <<>>
        THEN [kind |-> "md5", parts |-> SortedValues(fallback_values)]
        ELSE IF Len(key_parts) >= 2 THEN [kind |-> "plain", parts |-> key_parts]
             ELSE [kind |-> "unknown", parts |-> <<>>]

(* a key is [kind, parts]: "plain" is the "|"-joined string, "md5" the     *)
(* digest of the "|"-joined string (taken to be collision-free), and       *)
(* "unknown" the literal                                                   *)
generate_dedup_key(row, fallback_columns) ==
    LET key_cols == PresentColumns(row, primary_keys)
        key_parts == [i \in DOMAIN key_cols |-> ColumnValue(row, key_cols[i])]
        fb_cols == PresentColumns(row, fallback_columns)
        fallback_values == [i \in DOMAIN fb_cols |-> ColumnValue(row, fb_cols[i])]
        all_cols == PresentColumns(row, NonMetadataColumns(row))
        all_values == [i \in DOMAIN all_cols |-> ColumnValue(row, all_cols[i])]
    IN  IF Len(key_parts) >= 2 THEN [kind |-> "plain", parts |-> key_parts]
        ELSE IF fallback_values # <<>>
             THEN [kind |-> "md5", parts |-> SortedValues(fallback_values)]
             ELSE IF all_values # <<>>
                  THEN [kind |-> "md5", parts |-> SortedValues(all_values)]
                  ELSE [kind |-> "unknown", parts |-> <<>>]

DedupKeys(rows) == [i \in DOMAIN rows |-> generate_dedup_key(rows[i], FallbackColumns)]

----------------------------------------------------------------------------
(* process_snapshots *)

Absent == [exists |-> FALSE, rows |-> <<>>]

get_snapshot_files(dir) == dir

get_processed_snapshots(cur) ==
    IF ~cur.exists THEN {} ELSE {cur.rows[i].snapshot_file : i \in DOMAIN cur.rows}

get_experiment_label_for_timestamp(s, ps, fallback_label) ==
    LET dt == parse_timestamp_for_labeling(s)
    IN  IF dt.ok THEN get_experiment_for_timestamp(ps, dt.t) ELSE fallback_label

(* the loop body of process_snapshots for one readable file *)
LabelledFrame(f, ps) ==
    LET timestamp_str == extract_timestamp_from_filename(f.name)
        experiment_label ==
            get_experiment_label_for_timestamp(timestamp_str, ps, ConfigLabel)
    IN  [i \in DOMAIN f.rows |->
            [experiment_label |-> experiment_label,
             schema_version |-> ConfigSchemaVersion,
             source |-> ConfigSource,
             snapshot_file |-> f.name,
             synced_at |-> timestamp_str,
             kraken_simulation_id |-> f.rows[i].kraken_simulation_id,
             ines_simulation_id |-> f.rows[i].ines_simulation_id,
             kraken_cost |-> f.rows[i].kraken_cost]]

(* sort_values("_synced_at_dt"): the parsed values ascending, NaT last in  *)
(* the order they had                                                      *)
SortValuesPerm(rows) ==
    LET dt == [i \in DOMAIN rows |-> ToDatetimeCoerce(rows[i].synced_at)]
    IN  AscendingIdx({i \in DOMAIN rows : ~dt[i].nat}, [i \in DOMAIN rows |-> dt[i].t])
        \o AscendingIdx({i \in DOMAIN rows : dt[i].nat}, [i \in DOMAIN rows |-> 0])

(* drop_duplicates(subset=["_dedup_key"], keep="last") *)
DropDuplicatesKeepLast(rows) ==
    LET keys == DedupKeys(rows)
    IN  KeepIdx(rows, {i \in DOMAIN rows :
                            ~\E j \in DOMAIN rows : j > i /\ keys[j] = keys[i]})

Deduplicate(rows) ==
    LET perm == SortValuesPerm(rows)
        sorted == [k \in 1..Len(rows) |-> rows[perm[k]]]
    IN  DropDuplicatesKeepLast(sorted)

(* the loop stopping the whole batch when one file fails *)
ParsedFramesAllOrNothing(new_files) ==
    IF \E i \in DOMAIN new_files : ~new_files[i].readable
    THEN <<>> ELSE new_files

(* the try/except of the loop: a file that raises is logged and skipped *)
ParsedFrames(new_files) ==
    SelectSeq(new_files, LAMBDA f : f.readable)

(* process_snapshots: [empty, df, combined, new_files, parsed]; df is the  *)
(* returned frame, combined the frame that was deduplicated                *)
process_snapshots(dir, cur, ps) ==
    LET snapshot_files == get_snapshot_files(dir)
        processed == get_processed_snapshots(cur)
        new_files == SelectSeq(snapshot_files, LAMBDA f : f.name \notin processed)
        frames == ParsedFrames(new_files)
        new_rows == Flatten([i \in DOMAIN frames |-> LabelledFrame(frames[i], ps)])
        combined == normalize_numeric_columns(
                        (IF cur.exists THEN cur.rows ELSE <<>>) \o new_rows)
        none == snapshot_files = <<>> \/ new_files = <<>> \/ frames = <<>>
    IN  [df |-> IF none THEN <<>> ELSE Deduplicate(combined),
         combined |-> IF none THEN <<>> ELSE combined,
         new_files |-> {new_files[i].name : i \in DOMAIN new_files},
         parsed |-> {frames[i].name : i \in DOMAIN frames},
         new_rows |-> new_rows]

----------------------------------------------------------------------------
(* The record of the last command: what it was given, what it found and    *)
(* the side effects it performed, in order.                                *)

RunBase ==
    [op |-> "none", ok |-> TRUE, error |-> "", dry |-> FALSE, reset |-> FALSE,
     before |-> curated, doc_before |-> periods_doc, periods_before |-> periods,
     backups_before |-> backups, combined |-> <<>>, new_rows |-> <<>>,
     parsed |-> {}, cutoff |-> 0, old |-> "", new |-> "", label |-> "",
     steps |-> <<>>, backup_ok |-> TRUE, warnings |-> <<>>,
     row |-> RawRow(Null, Null, Null), fallback_columns |-> <<>>,
     key |-> [kind |-> "unknown", parts |-> <<>>],
     start |-> 0, end |-> NoEnd, schema_version |-> "",
     order |-> run.order, manager |-> <<>>, wall |-> 0, tz |-> "",
     second |-> <<>>, label_second |-> ""]

----------------------------------------------------------------------------
(* The snapshot directory *)

FileContents ==
    { <<>>,
      <<RawRow(1, Null, 1)>>,
      <<RawRow(1, Null, 1), RawRow(-1, Null, 1)>> }

(* a new snapshot file appears; it is the most recently modified one *)
AddSnapshot ==
    /\ Len(snapshots) < MaxFiles
    /\ \E t \in Times, rows \in FileContents, readable \in BOOLEAN :
        /\ \A i \in DOMAIN snapshots : snapshots[i].name # StampOfInstant(t)
        /\ (~readable => rows = <<>>)
        /\ snapshots' = Append(snapshots,
                               [name |-> StampOfInstant(t), rows |-> rows,
                                readable |-> readable])
    /\ run' = [RunBase EXCEPT !.op = "add"]
    /\ UNCHANGED <<curated, periods_doc, periods, backups, repairs>>

(* a snapshot file joins the batch that is being added to the directory *)
AddBatchFile ==
    /\ Len(snapshots) < MaxBatchFiles
    /\ \E t \in Times, rows \in FileContents, readable \in BOOLEAN :
        /\ \A i \in DOMAIN snapshots : snapshots[i].name # StampOfInstant(t)
        /\ (~readable => rows = <<>>)
        /\ snapshots' = Append(snapshots,
                               [name |-> StampOfInstant(t), rows |-> rows,
                                readable |-> readable])
    /\ run' = [RunBase EXCEPT !.op = "add"]
    /\ UNCHANGED <<curated, periods_doc, periods, backups, repairs>>

(* a snapshot file is removed from the directory *)
RemoveSnapshot ==
    /\ \E i \in DOMAIN snapshots :
        snapshots' = KeepIdx(snapshots, DOMAIN snapshots \ {i})
    /\ run' = [RunBase EXCEPT !.op = "remove"]
    /\ UNCHANGED <<curated, periods_doc, periods, backups, repairs>>

----------------------------------------------------------------------------
(* generate_dedup_key applied to one record *)

(* records as read from a CSV file, and the same records carrying the      *)
(* metadata columns of one of two snapshot files                           *)
BareRows ==
    [kraken_simulation_id : {Null, 1, 2}, ines_simulation_id : {Null, 1},
     kraken_cost : {Null, 1, 2}, ines_cost : {Null, 1}]

IngestedRows(t) ==
    [kraken_simulation_id : {Null, 1, 2}, ines_simulation_id : {Null, 1},
     kraken_cost : {Null, 1, 2}, ines_cost : {Null, 1},
     experiment_label : Labels, schema_version : {ConfigSchemaVersion},
     source : {ConfigSource}, snapshot_file : {StampOfInstant(t)},
     synced_at : {extract_timestamp_from_filename(StampOfInstant(t))}]

KeyRows == BareRows \cup IngestedRows(0) \cup IngestedRows(1)

(* the values analysis.required_columns may have *)
FallbackLists ==
    { <<>>, <<"kraken_cost">>, <<"ines_cost">>,
      <<"kraken_cost", "ines_cost">>, <<"ines_cost", "kraken_cost">> }

GenerateKey ==
    /\ \E row \in KeyRows, fallback_columns \in FallbackLists :
        run' = [RunBase EXCEPT
                    !.op = "key", !.row = row,
                    !.fallback_columns = fallback_columns,
                    !.key = generate_dedup_key(row, fallback_columns)]
    /\ UNCHANGED <<snapshots, curated, periods_doc, periods, backups, repairs>>

----------------------------------------------------------------------------
(* ingest.py main *)

(* the end of main without the "No data to write" exit *)
IngestOutcomeNeverFatal(empty, reset, exists) ==
    IF empty THEN "unchanged" ELSE "write"

(* the end of main: "fatal" is sys.exit(1), "unchanged" the early return,  *)
(* "write" the to_parquet call                                            *)
IngestOutcome(empty, reset, exists) ==
    IF empty
    THEN IF reset \/ ~exists THEN "fatal" ELSE "unchanged"
    ELSE "write"

Ingest ==
    \E reset \in BOOLEAN :
        LET unlink == reset /\ curated.exists
            output == IF unlink THEN Absent ELSE curated
            periods_manager == _load_periods(periods_doc)
            res == process_snapshots(snapshots, output, periods_manager)
            outcome == IngestOutcome(res.df = <<>>, reset, output.exists)
            fatal == outcome = "fatal"
            write == outcome = "write"
        IN  /\ curated' = IF write THEN [exists |-> TRUE, rows |-> res.df] ELSE output
            /\ run' = [RunBase EXCEPT
                        !.op = "ingest", !.reset = reset, !.ok = ~fatal,
                        !.error = IF fatal THEN "no_data" ELSE "",
                        !.combined = res.combined, !.new_rows = res.new_rows,
                        !.parsed = res.parsed,
                        !.steps = (IF unlink THEN <<"unlink">> ELSE <<>>)
                                  \o (IF write THEN <<"write">> ELSE <<>>)]
            /\ UNCHANGED <<snapshots, periods_doc, periods, backups, repairs>>

----------------------------------------------------------------------------
(* fix_experiment_labels.py *)

(* the columns the repair adds to the frame while it works *)
HelperColumns == {"_synced_at_dt", "_new_experiment_label"}

WithHelperColumns(rows, new_labels) ==
    [i \in DOMAIN rows |->
        [c \in DOMAIN rows[i] \cup HelperColumns |->
            IF c = "_synced_at_dt" THEN parse_timestamp(rows[i].synced_at)
            ELSE IF c = "_new_experiment_label" THEN new_labels[i]
            ELSE rows[i][c]]]

(* df.drop(columns=[...]) *)
DropColumns(rows, cols) ==
    [i \in DOMAIN rows |-> [c \in DOMAIN rows[i] \ cols |-> rows[i][c]]]

(* Relabel writing the frame with the helper columns still in it *)
RelabelKeepsHelperColumns(rows, new_labels) ==
    LET df == WithHelperColumns(rows, new_labels)
    IN  [i \in DOMAIN df |->
            [df[i] EXCEPT !["experiment_label"] = df[i]["_new_experiment_label"]]]

(* "Apply changes": the label column takes the new labels and the helper   *)
(* columns are dropped                                                     *)
Relabel(rows, new_labels) ==
    LET df == WithHelperColumns(rows, new_labels)
        applied == [i \in DOMAIN df |->
                        [df[i] EXCEPT !["experiment_label"] =
                                            df[i]["_new_experiment_label"]]]
    IN  DropColumns(applied, HelperColumns)

(* CutoffLabels with the cutoff instant itself labelled old *)
CutoffLabelsInclusive(rows, cutoff_time, old_label, new_label) ==
    [i \in DOMAIN rows |->
        IF parse_timestamp(rows[i].synced_at).t <= cutoff_time
        THEN old_label ELSE new_label]

CutoffLabels(rows, cutoff_time, old_label, new_label) ==
    [i \in DOMAIN rows |->
        IF parse_timestamp(rows[i].synced_at).t < cutoff_time
        THEN old_label ELSE new_label]

PeriodLabels(rows, ps) ==
    [i \in DOMAIN rows |->
        get_experiment_for_timestamp(ps, parse_timestamp(rows[i].synced_at).t)]

(* FixLabels going on to write when the backup failed *)
FixLabelsWithoutBackup(rows, new_labels, dry_run, backup_ok) ==
    IF \E i \in DOMAIN rows : ~parse_timestamp(rows[i].synced_at).ok
    THEN [ok |-> FALSE, error |-> "parse", rows |-> rows, steps |-> <<>>]
    ELSE IF dry_run
    THEN [ok |-> TRUE, error |-> "", rows |-> rows, steps |-> <<>>]
    ELSE [ok |-> TRUE, error |-> "", rows |-> Relabel(rows, new_labels),
          steps |-> IF backup_ok THEN <<"backup", "write">> ELSE <<"write">>]

(* the common body of fix_labels_with_cutoff and fix_labels_with_periods:  *)
(* [ok, error, rows, steps] for the rows read and the labels computed      *)
FixLabels(rows, new_labels, dry_run, backup_ok) ==
    IF \E i \in DOMAIN rows : ~parse_timestamp(rows[i].synced_at).ok
    THEN [ok |-> FALSE, error |-> "parse", rows |-> rows, steps |-> <<>>]
    ELSE IF dry_run
    THEN [ok |-> TRUE, error |-> "", rows |-> rows, steps |-> <<>>]
    ELSE IF ~backup_ok
    THEN [ok |-> FALSE, error |-> "backup", rows |-> rows, steps |-> <<>>]
    ELSE [ok |-> TRUE, error |-> "", rows |-> Relabel(rows, new_labels),
          steps |-> <<"backup", "write">>]

fix_labels_with_cutoff(rows, cutoff_time, old_label, new_label, dry_run, backup_ok) ==
    FixLabels(rows, CutoffLabels(rows, cutoff_time, old_label, new_label),
              dry_run, backup_ok)

fix_labels_with_periods(rows, ps, dry_run, backup_ok) ==
    FixLabels(rows, PeriodLabels(rows, ps), dry_run, backup_ok)

BackupsMade(steps) == Cardinality({i \in DOMAIN steps : steps[i] = "backup"})

(* the number of runs of the repair tool is kept bounded; the backup can  *)
(* only fail where one is made                                            *)
MayRun(dry_run, backup_ok) == repairs < MaxRepairs /\ (dry_run => backup_ok)

RepairCutoff ==
    \E wall \in Times, tz \in {"UTC", "CET"}, old_label \in Labels,
       new_label \in Labels, dry_run \in BOOLEAN, backup_ok \in BOOLEAN :
        LET cutoff_time == CutoffInstant(wall, tz)
            res == fix_labels_with_cutoff(curated.rows, cutoff_time, old_label,
                                          new_label, dry_run, backup_ok)
        IN  /\ curated.exists
            /\ MayRun(dry_run, backup_ok)
            /\ repairs' = repairs + 1
            /\ curated' = [curated EXCEPT !.rows = res.rows]
            /\ backups' = backups + BackupsMade(res.steps)
            /\ run' = [RunBase EXCEPT
                        !.op = "cutoff", !.dry = dry_run, !.ok = res.ok,
                        !.error = res.error, !.cutoff = cutoff_time,
                        !.old = old_label, !.new = new_label,
                        !.backup_ok = backup_ok, !.steps = res.steps]
            /\ UNCHANGED <<snapshots, periods_doc, periods>>

RepairPeriods ==
    \E dry_run \in BOOLEAN, backup_ok \in BOOLEAN :
        LET periods_manager == _load_periods(periods_doc)
            res == fix_labels_with_periods(curated.rows, periods_manager,
                                           dry_run, backup_ok)
        IN  /\ curated.exists
            /\ MayRun(dry_run, backup_ok)
            /\ repairs' = repairs + 1
            /\ curated' = [curated EXCEPT !.rows = res.rows]
            /\ backups' = backups + BackupsMade(res.steps)
            /\ run' = [RunBase EXCEPT
                        !.op = "periods", !.dry = dry_run, !.ok = res.ok,
                        !.manager = periods_manager,
                        !.error = res.error, !.backup_ok = backup_ok,
                        !.steps = res.steps]
            /\ UNCHANGED <<snapshots, periods_doc, periods>>

InitPeriods ==
    \E wall \in Times, tz \in {"UTC", "CET"}, old_label \in Labels,
       new_label \in Labels, dry_run \in BOOLEAN, backup_ok \in BOOLEAN :
        LET cutoff_time == CutoffInstant(wall, tz)
            loaded == _load_periods(periods_doc)
            with_old == register_new_experiment(loaded, old_label, Epoch2025,
                                                "v1", <<cutoff_time>>)
            with_new == register_new_experiment(with_old, new_label, cutoff_time,
                                                "v1", NoEnd)
            res == fix_labels_with_periods(curated.rows, with_new, dry_run, backup_ok)
        IN  /\ curated.exists
            /\ MayRun(dry_run, backup_ok)
            /\ repairs' = repairs + 1
            /\ periods_doc' = _save_periods(with_new)
            /\ curated' = [curated EXCEPT !.rows = res.rows]
            /\ backups' = backups + BackupsMade(res.steps)
            /\ run' = [RunBase EXCEPT
                        !.op = "init-periods", !.dry = dry_run, !.ok = res.ok,
                        !.manager = with_new,
                        !.error = res.error, !.cutoff = cutoff_time,
                        !.old = old_label, !.new = new_label,
                        !.backup_ok = backup_ok,
                        !.steps = <<"save_periods", "save_periods">> \o res.steps]
            /\ UNCHANGED <<snapshots, periods>>

(* the parquet file is missing: main returns 1 before doing anything *)
RepairNoParquet ==
    /\ ~curated.exists
    /\ \E op \in {"cutoff", "periods", "init-periods"}, dry_run \in BOOLEAN :
        run' = [RunBase EXCEPT !.op = op, !.dry = dry_run, !.ok = FALSE,
                               !.error = "no_parquet"]
    /\ UNCHANGED <<snapshots, curated, periods_doc, periods, backups, repairs>>

----------------------------------------------------------------------------
(* experiment_manager.py: the manager process and its commands *)

Register ==
    \E label \in Labels, start \in Times, schema_version \in SchemaVersions,
       end \in {NoEnd} \cup {<<t>> : t \in Times} :
        /\ periods' = register_new_experiment(periods, label, start, schema_version, end)
        /\ periods_doc' = _save_periods(periods')
        /\ run' = [RunBase EXCEPT !.op = "register", !.label = label,
                                  !.start = start, !.end = end,
                                  !.schema_version = schema_version,
                                  !.order = IF label \in Range(run.order)
                                            THEN run.order
                                            ELSE Append(run.order, label),
                                  !.steps = <<"save_periods">>]
        /\ UNCHANGED <<snapshots, curated, backups, repairs>>

Close ==
    \E label \in Labels, wall \in Times, tz \in {"naive", "CET"} :
      /\ LET end == ToUtc(wall, tz)
             res == close_experiment_period(periods, label, end)
        IN  /\ periods' = res.periods
            /\ periods_doc' = IF res.saved THEN _save_periods(res.periods)
                                           ELSE periods_doc
            /\ run' = [RunBase EXCEPT
                        !.op = "close", !.label = label, !.end = <<end>>,
                        !.wall = wall, !.tz = tz,
                        !.ok = ~res.raised,
                        !.error = IF res.raised THEN "not_found" ELSE "",
                        !.steps = IF res.saved THEN <<"save_periods">> ELSE <<>>]
      /\ UNCHANGED <<snapshots, curated, backups, repairs>>

Validate ==
    /\ run' = [RunBase EXCEPT !.op = "validate", !.warnings = validate_periods(periods)]
    /\ UNCHANGED <<snapshots, curated, periods_doc, periods, backups, repairs>>

(* a new manager process is constructed on the document *)
Reload ==
    /\ periods' = _load_periods(periods_doc)
    /\ run' = [RunBase EXCEPT
                !.op = "load",
                !.order = [i \in DOMAIN periods' |-> periods'[i].label]]
    /\ UNCHANGED <<snapshots, curated, periods_doc, backups, repairs>>

----------------------------------------------------------------------------
(* A register or close call taken step by step: the mapping is changed,    *)
(* _save_periods opens the file for writing (which empties it), json.dump  *)
(* writes the periods and the file is closed.  The process may stop        *)
(* between any two steps.  run.op is the position of the call.             *)

BeginCall ==
    /\ run.op \in {"none", "load", "saved"}
    /\ \E label \in Labels, start \in Times, closing \in BOOLEAN,
          end \in {NoEnd} \cup {<<t>> : t \in Times} :
        /\ closing => (HasLabel(periods, label) /\ end # NoEnd)
        /\ periods' = IF closing
                      THEN close_experiment_period(periods, label, end[1]).periods
                      ELSE register_new_experiment(periods, label, start, "v1", end)
        /\ run' = [RunBase EXCEPT !.op = "mutated", !.label = label,
                                  !.manager = periods']
    /\ UNCHANGED <<snapshots, curated, periods_doc, backups, repairs>>

(* open(self.periods_file, 'w') *)
OpenForWrite ==
    /\ run.op = "mutated"
    /\ periods_doc' = [exists |-> TRUE, periods |-> <<>>, complete |-> FALSE]
    /\ run' = [run EXCEPT !.op = "saving"]
    /\ UNCHANGED <<snapshots, curated, periods, backups, repairs>>

(* json.dump writes the next period, the labels in sorted order *)
WriteChunk ==
    /\ run.op = "saving"
    /\ Len(periods_doc.periods) < Len(periods)
    /\ periods_doc' = [periods_doc EXCEPT
                        !.periods = Append(@, SortByLabel(periods)[Len(@) + 1])]
    /\ UNCHANGED <<snapshots, curated, periods, backups, repairs, run>>

(* the with block ends: the file is closed *)
CloseFile ==
    /\ run.op = "saving"
    /\ Len(periods_doc.periods) = Len(periods)
    /\ periods_doc' = [periods_doc EXCEPT !.complete = TRUE]
    /\ run' = [run EXCEPT !.op = "saved"]
    /\ UNCHANGED <<snapshots, curated, periods, backups, repairs>>

(* the process stops during the call *)
Crash ==
    /\ run.op \in {"mutated", "saving", "saved"}
    /\ periods' = <<>>
    /\ run' = [run EXCEPT !.op = "crashed"]
    /\ UNCHANGED <<snapshots, curated, periods_doc, backups, repairs>>

(* a new process constructs a manager on what the file holds *)
Restart ==
    /\ run.op = "crashed"
    /\ periods' = _load_periods(periods_doc)
    /\ run' = [RunBase EXCEPT
                !.op = "load",
                !.order = [i \in DOMAIN periods' |-> periods'[i].label]]
    /\ UNCHANGED <<snapshots, curated, periods_doc, backups, repairs>>

----------------------------------------------------------------------------
(* Two manager processes on one periods file.  The first is the manager    *)
(* of the variable periods, constructed on the initial document; the       *)
(* second keeps its mapping in run.second.  run.steps lists what has       *)
(* happened; each manager registers once.                                  *)

(* what a save makes of the file: a save that first read the file again   *)
(* and kept the labels it does not hold itself                            *)
MutatorSaveMerging(doc, ps) ==
    LET on_disk == _load_periods(doc)
        kept == KeepIdx(on_disk, {i \in DOMAIN on_disk : ~HasLabel(ps, on_disk[i].label)})
    IN  _save_periods(ps \o kept)

(* what a save makes of the file: the file is not read, the whole mapping *)
(* of the saving manager replaces it                                      *)
MutatorSave(doc, ps) == _save_periods(ps)

Did(step) == \E i \in DOMAIN run.steps : run.steps[i] = step

ConstructSecond ==
    /\ ~Did("construct_second")
    /\ run' = [run EXCEPT !.op = "construct_second",
                          !.second = _load_periods(periods_doc),
                          !.steps = Append(@, "construct_second")]
    /\ UNCHANGED <<snapshots, curated, periods_doc, periods, backups, repairs>>

RegisterFirst ==
    /\ ~Did("register_first")
    /\ \E label \in Labels, start \in Times,
          end \in {NoEnd} \cup {<<t>> : t \in Times} :
        /\ periods' = register_new_experiment(periods, label, start, "v1", end)
        /\ periods_doc' = MutatorSave(periods_doc, periods')
        /\ run' = [run EXCEPT !.op = "register_first", !.label = label,
                              !.steps = Append(@, "register_first")]
    /\ UNCHANGED <<snapshots, curated, backups, repairs>>

RegisterSecond ==
    /\ Did("construct_second") /\ ~Did("register_second")
    /\ \E label \in Labels, start \in Times,
          end \in {NoEnd} \cup {<<t>> : t \in Times} :
        LET mapping == register_new_experiment(run.second, label, start, "v1", end)
        IN  /\ periods_doc' = MutatorSave(periods_doc, mapping)
            /\ run' = [run EXCEPT !.op = "register_second", !.second = mapping,
                                  !.label_second = label,
                                  !.steps = Append(@, "register_second")]
    /\ UNCHANGED <<snapshots, curated, periods, backups, repairs>>

----------------------------------------------------------------------------
(* Specifications *)

ScenarioA ==
    <<Period("expA", Epoch2025, "v1", <<MaxTime>>), Period("expB", MaxTime, "v1", NoEnd)>>

(* a hand-written document: its keys are not sorted and its periods overlap *)
Overlapping ==
    <<Period("expB", 0, "v1", NoEnd), Period("expA", Epoch2025, "v1", NoEnd)>>

InitDocs ==
    { [exists |-> FALSE, periods |-> <<>>, complete |-> FALSE],
      [exists |-> TRUE, periods |-> ScenarioA, complete |-> TRUE],
      [exists |-> TRUE, periods |-> Overlapping, complete |-> TRUE] }

(* the documents of up to three periods, as _save_periods writes them *)
PeriodOptions(label) ==
    {<<>>} \cup {<<Period(label, start, "v1", end)>> :
                    start \in Times, end \in {NoEnd} \cup {<<t>> : t \in Times}}

ValidationDocs ==
    {_save_periods(a \o b \o c) :
        a \in PeriodOptions("expA"), b \in PeriodOptions("expB"),
        c \in PeriodOptions("expC")}

InitFrom(docs) ==
    /\ snapshots = <<>>
    /\ curated = Absent
    /\ periods_doc \in docs
    /\ periods = _load_periods(periods_doc)
    /\ backups = 0
    /\ repairs = 0
    /\ run = [op |-> "none", ok |-> TRUE, error |-> "", dry |-> FALSE,
              reset |-> FALSE, before |-> Absent, doc_before |-> periods_doc,
              periods_before |-> periods, backups_before |-> 0,
              combined |-> <<>>, new_rows |-> <<>>, parsed |-> {}, cutoff |-> 0,
              old |-> "", new |-> "", label |-> "", steps |-> <<>>,
              backup_ok |-> TRUE, warnings |-> <<>>,
              row |-> RawRow(Null, Null, Null), fallback_columns |-> <<>>,
              key |-> [kind |-> "unknown", parts |-> <<>>],
              start |-> 0, end |-> NoEnd, schema_version |-> "",
              order |-> [i \in DOMAIN periods |-> periods[i].label],
              manager |-> <<>>, wall |-> 0, tz |-> "",
              second |-> <<>>, label_second |-> ""]

Init == InitFrom(InitDocs)

InitValidation == InitFrom(ValidationDocs)

Next ==
    \/ AddSnapshot
    \/ Ingest
    \/ RepairCutoff
    \/ RepairPeriods
    \/ InitPeriods
    \/ RepairNoParquet

Spec == Init /\ [][Next]_vars

(* ingest runs over a directory to which files are only added *)
NextIngest ==
    \/ AddSnapshot
    \/ Ingest

SpecIngest == Init /\ [][NextIngest]_vars

(* ingest runs over a directory whose files come and go *)
(* the ingest run without --reset that follows a batch of new files *)
IngestBatch ==
    /\ run.op = "add"
    /\ Ingest
    /\ ~run'.reset

NextIncremental ==
    \/ AddBatchFile
    \/ IngestBatch

SpecIncremental == Init /\ [][NextIncremental]_vars

NextRetention ==
    \/ AddSnapshot
    \/ RemoveSnapshot
    \/ Ingest

SpecRetention == Init /\ [][NextRetention]_vars

NextCrash ==
    \/ BeginCall
    \/ OpenForWrite
    \/ WriteChunk
    \/ CloseFile
    \/ Crash
    \/ Restart

SpecCrash == Init /\ [][NextCrash]_vars

NextTwoManagers ==
    \/ ConstructSecond
    \/ RegisterFirst
    \/ RegisterSecond

SpecTwoManagers == Init /\ [][NextTwoManagers]_vars

NextValidation == Validate

SpecValidation == InitValidation /\ [][NextValidation]_vars

NextKey == GenerateKey

SpecKey == Init /\ [][NextKey]_vars

NextRegistry ==
    \/ Register
    \/ Close
    \/ Validate
    \/ Reload

SpecRegistry == Init /\ [][NextRegistry]_vars

----------------------------------------------------------------------------
(* Properties *)

RowSet(cur) == Range(cur.rows)

SnapshotFileSet(cur) == {cur.rows[i].snapshot_file : i \in DOMAIN cur.rows}

CountLabel(rows, label) ==
    Cardinality({i \in DOMAIN rows : rows[i].experiment_label = label})

RepairOps == {"cutoff", "periods", "init-periods"}

Wrote == \E i \in DOMAIN run.steps : run.steps[i] = "write"

(* C1: after the dedup step of an ingest run that writes the artifact,    *)
(* every dedup key of the combined (existing and newly parsed) records    *)
(* has exactly one surviving record, and no combined record with that key *)
(* has a greater synced_at than the survivor.                             *)
C1_SurvivorHasMaxSyncedAt ==
    (run.op = "ingest" /\ Wrote) =>
        LET combined_keys == DedupKeys(run.combined)
            stored_keys == DedupKeys(curated.rows)
        IN  \A i \in DOMAIN run.combined :
                /\ Cardinality({j \in DOMAIN curated.rows :
                                    stored_keys[j] = combined_keys[i]}) = 1
                /\ \A j \in DOMAIN curated.rows :
                        stored_keys[j] = combined_keys[i]
                        => ~SyncedAtLess(curated.rows[j].synced_at,
                                         run.combined[i].synced_at)

(* C2: an ingest run without --reset that directly follows a completed    *)
(* ingest run (directory, registry and config unchanged in between)       *)
(* leaves the row set of the curated artifact as it was.                  *)
C2_SecondRunKeepsRowSet ==
    [][(run.op = "ingest" /\ run.ok /\ run'.op = "ingest" /\ ~run'.reset)
        => (curated'.exists = curated.exists /\ RowSet(curated') = RowSet(curated))]_vars

(* C3: an ingest run without --reset never removes a snapshot_file value  *)
(* from the curated artifact (files are only ever added to the directory).*)
C3_CoverageOnlyGrows ==
    [][(run'.op = "ingest" /\ ~run'.reset)
        => SnapshotFileSet(curated) \subseteq SnapshotFileSet(curated')]_vars

(* C4: no two records of the curated artifact have the same dedup key, in *)
(* every state reached by ingest runs and label-repair runs.              *)
C4_StoredKeysUnique ==
    LET stored_keys == DedupKeys(curated.rows)
    IN  \A i, j \in DOMAIN curated.rows : stored_keys[i] = stored_keys[j] => i = j

C6_CutoffPartition ==
    (run.op = "cutoff" /\ ~run.dry /\ run.ok) =>
        LET rows == curated.rows
            n_before == Cardinality({i \in DOMAIN run.before.rows :
                                        run.before.rows[i].synced_at.t < run.cutoff})
        IN  /\ Len(rows) = Len(run.before.rows)
            /\ \A i \in DOMAIN rows :
                /\ rows[i].synced_at = run.before.rows[i].synced_at
                /\ (rows[i].synced_at.t < run.cutoff
                        => rows[i].experiment_label = run.old)
                /\ (rows[i].synced_at.t >= run.cutoff
                        => rows[i].experiment_label = run.new)
            /\ Cardinality({i \in DOMAIN rows :
                    rows[i].experiment_label \in {run.old, run.new}}) = Len(rows)
            /\ (run.old # run.new =>
                    /\ CountLabel(rows, run.old) = n_before
                    /\ CountLabel(rows, run.new) = Len(rows) - n_before
                    /\ CountLabel(rows, run.old) + CountLabel(rows, run.new) = Len(rows))

C6_Witness ==
    /\ run.op = "cutoff" /\ ~run.dry /\ run.ok
    /\ run.old # run.new
    /\ \E i, j \in DOMAIN curated.rows :
        /\ curated.rows[i].synced_at.t < run.cutoff
        /\ curated.rows[j].synced_at.t >= run.cutoff
        /\ run.before.rows[i].experiment_label # run.old
        /\ run.before.rows[j].experiment_label # run.new

(* C7: in a real run of either repair strategy the artifact is written    *)
(* only after the backup was made, and when the backup fails the run      *)
(* fails and the artifact is left as it was.                              *)
C7_BackupPrecedesWrite ==
    (run.op \in RepairOps /\ ~run.dry) =>
        /\ \A j \in DOMAIN run.steps :
            run.steps[j] = "write" =>
                /\ \E i \in 1..(j - 1) : run.steps[i] = "backup"
                /\ run.backup_ok
                /\ backups = run.backups_before + 1
        /\ (curated # run.before => Wrote)
        /\ (~run.backup_ok => (~run.ok /\ curated = run.before))

C7_Witness ==
    /\ run.op \in RepairOps /\ ~run.dry
    /\ run.error = "backup"
    /\ \E i \in DOMAIN curated.rows : curated.rows[i].experiment_label # run.new

(* C8: a repair command run with --dry-run changes no persistent state:   *)
(* not the curated artifact, not the backups, not the registry document.  *)
C8_DryRunChangesNothing ==
    (run.op \in RepairOps /\ run.dry) =>
        /\ curated = run.before
        /\ backups = run.backups_before
        /\ periods_doc = run.doc_before

(* C9: closing a label the registry does not hold raises the not-found    *)
(* error, calls no save, and changes neither the mapping nor the          *)
(* document.                                                              *)
C9_CloseUnknownLabel ==
    (run.op = "close" /\ ~HasLabel(run.periods_before, run.label)) =>
        /\ ~run.ok
        /\ run.error = "not_found"
        /\ run.steps = <<>>
        /\ periods = run.periods_before
        /\ periods_doc = run.doc_before

C9_Witness ==
    /\ run.op = "close"
    /\ run.error = "not_found"
    /\ periods # <<>>

(* C10: an ingest run that produced no rows while no artifact existed     *)
(* (none before it, or --reset removed it) ends fatally and writes        *)
(* nothing; an ingest run that ends successfully leaves an artifact.      *)
C10_NoDataRule ==
    run.op = "ingest" =>
        /\ ((run.new_rows = <<>> /\ (run.reset \/ ~run.before.exists)) =>
                /\ ~run.ok
                /\ run.error = "no_data"
                /\ ~Wrote
                /\ ~curated.exists)
        /\ (run.ok => curated.exists)

C10_Witness ==
    /\ run.op = "ingest"
    /\ run.reset
    /\ run.before.exists
    /\ ~run.ok

(* the primary keys present and not null in a record *)
IdentityPresent(row) ==
    {c \in Range(primary_keys) : c \in DOMAIN row /\ NotNa(row, c)}

(* C11: for a record with fewer than two primary keys present and at      *)
(* least one fallback column present and not null, generate_dedup_key     *)
(* returns the digest of the sorted "column=value" pairs of exactly those  *)
(* fallback columns, never "unknown", whatever the order of               *)
(* fallback_columns.                                                      *)
C11_FallbackTier ==
    LET row == run.row
        fb == run.fallback_columns
        present == {c \in Range(fb) : c \in DOMAIN row /\ NotNa(row, c)}
    IN  (run.op = "key" /\ Cardinality(IdentityPresent(row)) < 2 /\ present # {}) =>
            /\ run.key.kind = "md5"
            /\ {run.key.parts[i].col : i \in DOMAIN run.key.parts} = present
            /\ Len(run.key.parts) = Cardinality(present)
            /\ \A i \in DOMAIN run.key.parts :
                    /\ run.key.parts[i].num = row[run.key.parts[i].col]
                    /\ \A j \in DOMAIN run.key.parts :
                            i < j => ColumnRank(run.key.parts[i].col)
                                        < ColumnRank(run.key.parts[j].col)
            /\ \A other \in FallbackLists :
                    Range(other) = Range(fb)
                        => generate_dedup_key(row, other) = run.key

C11_Witness ==
    /\ run.op = "key"
    /\ IdentityPresent(run.row) = {"experiment_label"}
    /\ run.fallback_columns = <<"kraken_cost", "ines_cost">>
    /\ run.row.kraken_cost # Null /\ run.row.ines_cost # Null

(* C12: for a record with at least two primary keys present and not null, *)
(* generate_dedup_key returns the "column=value" pairs of the present     *)
(* primary keys in the order experiment_label, kraken_simulation_id,       *)
(* ines_simulation_id, whatever fallback_columns and the other columns    *)
(* hold; two such records have equal keys exactly when the same primary   *)
(* keys are present in both with the same values.                         *)
C12_IdentityTier ==
    LET row == run.row
        ids == IdentityPresent(row)
        expected == SelectSeq(primary_keys, LAMBDA c : c \in ids)
    IN  (run.op = "key" /\ Cardinality(ids) >= 2) =>
            /\ run.key.kind = "plain"
            /\ Len(run.key.parts) = Len(expected)
            /\ \A i \in DOMAIN expected :
                    /\ run.key.parts[i].col = expected[i]
                    /\ (expected[i] = "experiment_label"
                            => run.key.parts[i].txt = row.experiment_label)
                    /\ (expected[i] # "experiment_label"
                            => run.key.parts[i].num = row[expected[i]])
            /\ \A other \in KeyRows, fb \in FallbackLists :
                    Cardinality(IdentityPresent(other)) >= 2 =>
                        ((generate_dedup_key(other, fb) = run.key)
                            <=> (/\ IdentityPresent(other) = ids
                                 /\ \A c \in ids : other[c] = row[c]))

C12_Witness ==
    /\ run.op = "key"
    /\ IdentityPresent(run.row) = {"kraken_simulation_id", "ines_simulation_id"}
    /\ run.row.kraken_cost # Null
    /\ run.fallback_columns = <<"kraken_cost">>

(* the mapping as a set of periods, one per label *)
Mapping(ps) == Range(ps)

(* C13: after register_new_experiment returns, the mapping and the        *)
(* document both hold for the label exactly the period given (the end     *)
(* only if one was given), hold every other label's period as before,     *)
(* and hold the same periods; the call succeeds whatever the other        *)
(* periods are.                                                           *)
C13_RegisterUpserts ==
    run.op = "register" =>
        LET given == Period(run.label, run.start, run.schema_version, run.end)
            others(ps) == {p \in Mapping(ps) : p.label # run.label}
        IN  /\ run.ok
            /\ {p \in Mapping(periods) : p.label = run.label} = {given}
            /\ Cardinality({i \in DOMAIN periods : periods[i].label = run.label}) = 1
            /\ others(periods) = others(run.periods_before)
            /\ periods_doc.exists
            /\ Len(periods_doc.periods) = Len(periods)
            /\ Mapping(periods_doc.periods) = Mapping(periods)

C13_Witness ==
    /\ run.op = "register"
    /\ run.end = NoEnd
    /\ \E p \in Mapping(run.periods_before) :
            p.label = run.label /\ p.end_time # NoEnd
    /\ \E p \in Mapping(periods) : p.label # run.label /\ p.end_time = NoEnd

(* the files an ingest run found new, from the directory and the artifact  *)
(* it started from                                                         *)
NewFilesOfRun ==
    LET output == IF run.reset THEN Absent ELSE run.before
        processed == get_processed_snapshots(output)
    IN  {snapshots[i] : i \in {j \in DOMAIN snapshots :
                                    snapshots[j].name \notin processed}}

(* C14: in an ingest run whose new files include one that fails to be     *)
(* read and one that is read, the run does not abort: every readable new  *)
(* file is parsed, its labelled rows are part of the combined frame, the  *)
(* artifact is written and holds a record for each of their dedup keys.   *)
C14_BadFileIsSkipped ==
    LET bad == {f \in NewFilesOfRun : ~f.readable}
        good == {f \in NewFilesOfRun : f.readable}
        ps == _load_periods(periods_doc)
        stored_keys == Range(DedupKeys(curated.rows))
    IN  (run.op = "ingest" /\ bad # {} /\ \E f \in good : f.rows # <<>>) =>
            /\ run.ok
            /\ Wrote
            /\ run.parsed = {f.name : f \in good}
            /\ \A f \in good :
                    LET rows == normalize_numeric_columns(LabelledFrame(f, ps))
                    IN  \A i \in DOMAIN rows :
                            /\ rows[i] \in Range(run.combined)
                            /\ generate_dedup_key(rows[i], FallbackColumns)
                                    \in stored_keys

C14_Witness ==
    /\ run.op = "ingest"
    /\ Len(snapshots) = 2
    /\ ~snapshots[1].readable
    /\ snapshots[2].readable /\ snapshots[2].rows # <<>>
    /\ snapshots[1].name \in {f.name : f \in NewFilesOfRun}
    /\ \E i \in DOMAIN curated.rows :
            curated.rows[i].snapshot_file = snapshots[2].name

(* the files of the directory with at least one row that a run parsed *)
ParsedWithRows(r) ==
    {snapshots[i].name : i \in {j \in DOMAIN snapshots :
                                    /\ snapshots[j].name \in r.parsed
                                    /\ snapshots[j].rows # <<>>}}

(* C15: an ingest run without --reset that follows an ingest run which    *)
(* wrote the artifact parses none of the files that run parsed and        *)
(* ingested.                                                              *)
C15_SeenFilesNotParsedAgain ==
    [][(run.op = "ingest" /\ run.ok /\ Wrote /\ run'.op = "ingest" /\ ~run'.reset)
        => ParsedWithRows(run) \cap run'.parsed = {}]_vars

(* the position a label has in the order of first insertion *)
InsertionRank(label) == CHOOSE i \in DOMAIN run.order : run.order[i] = label

(* C16: when one or more periods of the mapping contain t,                *)
(* get_experiment_for_timestamp(t) returns, among their labels, the one   *)
(* inserted first (a label registered again keeps its place), whatever    *)
(* their start times.                                                     *)
C16_FirstInsertedWins ==
    \A t \in Times :
        LET containing == {p \in Mapping(periods) :
                            /\ p.start_time <= t
                            /\ (p.end_time = NoEnd \/ t < p.end_time[1])}
            label == get_experiment_for_timestamp(periods, t)
        IN  containing # {} =>
                /\ label \in {p.label : p \in containing}
                /\ \A p \in containing :
                        InsertionRank(label) <= InsertionRank(p.label)

C16_Witness ==
    /\ run.op = "register"
    /\ run.order = <<"expB", "expA">>
    /\ run.label = "expB"
    /\ \E p, q \in Mapping(periods) :
            /\ p.label = "expB" /\ q.label = "expA"
            /\ q.start_time < p.start_time
            /\ p.end_time = NoEnd /\ q.end_time = NoEnd
            /\ get_experiment_for_timestamp(periods, MaxTime) = "expB"

(* C17: every record of a newly ingested snapshot carries the label the   *)
(* registry resolves for the timestamp of its file name, and the          *)
(* configured label when that timestamp does not parse or no period       *)
(* contains it; none carries "unknown" (the configured label is not       *)
(* "unknown").                                                            *)
C17_FallbackToConfigLabel ==
    run.op = "ingest" =>
        LET ps == _load_periods(periods_doc)
        IN  \A i \in DOMAIN run.new_rows :
                LET row == run.new_rows[i]
                    dt == parse_timestamp_for_labeling(
                              extract_timestamp_from_filename(row.snapshot_file))
                    resolved == dt.ok /\ \E j \in DOMAIN ps : PeriodContains(ps[j], dt.t)
                IN  /\ (resolved => row.experiment_label
                                        = get_experiment_for_timestamp(ps, dt.t))
                    /\ (~resolved => row.experiment_label = ConfigLabel)
                    /\ row.experiment_label # UnknownLabel

C19_EndAfterStart ==
    \A p \in Mapping(periods) \cup Mapping(periods_doc.periods) :
        p.end_time # NoEnd => p.end_time[1] > p.start_time

C21_CloseSetsOnlyEnd ==
    (run.op = "close" /\ HasLabel(run.periods_before, run.label)) =>
        LET old == run.periods_before[IndexOfLabel(run.periods_before, run.label)]
            instant == IF run.tz = "CET" THEN run.wall - CetOffset ELSE run.wall
        IN  /\ run.ok
            /\ Len(periods) = Len(run.periods_before)
            /\ \A i \in DOMAIN periods :
                    IF run.periods_before[i].label = run.label
                    THEN /\ periods[i].label = run.label
                         /\ periods[i].end_time = <<instant>>
                         /\ periods[i].start_time = old.start_time
                         /\ periods[i].schema_version = old.schema_version
                    ELSE periods[i] = run.periods_before[i]
            /\ periods_doc.exists
            /\ Len(periods_doc.periods) = Len(periods)
            /\ Mapping(periods_doc.periods) = Mapping(periods)

C21_Witness ==
    /\ run.op = "close" /\ run.ok
    /\ run.tz = "CET"
    /\ Len(periods) = 2
    /\ \E p \in Mapping(run.periods_before) :
            /\ p.label = run.label
            /\ p.end_time # NoEnd
            /\ p.end_time # run.end

(* C22: when the process stops during a register or close call, the       *)
(* document is the whole document from before the call or the whole       *)
(* document the call writes.                                              *)
C22_CrashLeavesWholeDocument ==
    run.op = "crashed" =>
        periods_doc \in {run.doc_before, _save_periods(run.manager)}

(* the labels a document holds *)
DocLabels(doc) == {p.label : p \in Mapping(_load_periods(doc))}

(* C23: a register call leaves in the document exactly the mapping of the *)
(* manager that made it; so when both managers were built from the same   *)
(* document and each registered a label new to it, the two labels being   *)
(* different, the document holds the label of the later call and not the  *)
(* label of the earlier one.                                              *)
C23_LaterSaveDropsEarlierLabel ==
    LET both_new == /\ run.label # run.label_second
                    /\ run.label \notin DocLabels(run.doc_before)
                    /\ run.label_second \notin DocLabels(run.doc_before)
    IN  /\ (run.op = "register_first"
                => Mapping(periods_doc.periods) = Mapping(periods))
        /\ (run.op = "register_second"
                => Mapping(periods_doc.periods) = Mapping(run.second))
        /\ ((run.steps = <<"construct_second", "register_first", "register_second">>
                /\ both_new)
                => DocLabels(periods_doc)
                        = DocLabels(run.doc_before) \cup {run.label_second})
        /\ ((run.steps = <<"construct_second", "register_second", "register_first">>
                /\ both_new)
                => DocLabels(periods_doc) = DocLabels(run.doc_before) \cup {run.label})

C23_Witness ==
    /\ run.steps = <<"construct_second", "register_first", "register_second">>
    /\ run.label = "expA" /\ run.label_second = "expB"
    /\ HasLabel(periods, "expA")
    /\ DocLabels(periods_doc) = {"expB"}

(* C24: after a register or close call has written the document, a        *)
(* manager freshly loaded from the document resolves every timestamp to   *)
(* the label the writing manager resolves it to.                          *)
C24_ReloadResolvesTheSame ==
    (run.op \in {"register", "close"} /\ run.ok) =>
        \A t \in Times :
            get_experiment_for_timestamp(_load_periods(periods_doc), t)
                = get_experiment_for_timestamp(periods, t)

(* the sequence in the opposite order *)
Reversed(ps) == [k \in 1..Len(ps) |-> ps[Len(ps) + 1 - k]]

(* C25: when validate_periods returns no warning, at most one period of   *)
(* the mapping contains any given timestamp, and                          *)
(* get_experiment_for_timestamp gives the same label whatever the order   *)
(* of the periods.                                                        *)
C25_CleanValidationIsUnambiguous ==
    (run.op = "validate" /\ run.warnings = <<>>) =>
        \A t \in Times :
            /\ Cardinality({i \in DOMAIN periods :
                                /\ periods[i].start_time <= t
                                /\ (periods[i].end_time = NoEnd
                                        \/ t < periods[i].end_time[1])}) <= 1
            /\ get_experiment_for_timestamp(Reversed(periods), t)
                    = get_experiment_for_timestamp(periods, t)

C25_Witness ==
    /\ run.op = "validate" /\ run.warnings = <<>>
    /\ Len(periods) = 3
    /\ periods[1].start_time > periods[3].start_time
    /\ periods[3].start_time < periods[2].start_time
    /\ periods[2].start_time < periods[1].start_time
    /\ periods[1].end_time = NoEnd
    /\ \A i \in {2, 3} : periods[i].end_time # NoEnd
                            /\ periods[i].end_time[1] > periods[i].start_time

(* C26: two ingested records with the same experiment_label and equal     *)
(* values in every domain column get the same key from generate_dedup_key *)
(* whatever their snapshot_file and synced_at.                            *)
C26_KeyIgnoresSnapshot ==
    (run.op = "key" /\ "snapshot_file" \in DOMAIN run.row) =>
        \A other \in IngestedRows(0) \cup IngestedRows(1) :
            (/\ other.experiment_label = run.row.experiment_label
             /\ \A c \in DomainColumns : other[c] = run.row[c])
                => generate_dedup_key(other, run.fallback_columns) = run.key

(* the frame a single ingest run with --reset returns for the directory *)
BatchFrame == process_snapshots(snapshots, Absent, _load_periods(periods_doc)).df

(* C27: after files were added one batch at a time with an ingest run     *)
(* after each batch, the row set of the curated artifact equals the row   *)
(* set a single ingest run with --reset produces from the directory.      *)
C27_IncrementalEqualsBatch ==
    (run.op = "ingest" /\ run.ok) => RowSet(curated) = Range(BatchFrame)

(* C28: init-periods run on an empty registry with a cutoff T after        *)
(* 2025-01-01 and labels (old, new) registers old = [2025-01-01, T) and   *)
(* ongoing new = [T, open), and labels every record whose synced_at is    *)
(* not before 2025-01-01 as fix_labels_with_cutoff(T, old, new) does;     *)
(* records before 2025-01-01 get "unknown".                               *)
C28_InitPeriodsAgreesWithCutoff ==
    (/\ run.op = "init-periods"
     /\ _load_periods(run.doc_before) = <<>>
     /\ run.cutoff > Epoch2025) =>
        LET rows == run.before.rows
            by_registry == PeriodLabels(rows, run.manager)
            by_cutoff == CutoffLabels(rows, run.cutoff, run.old, run.new)
        IN  /\ \E i \in DOMAIN run.manager :
                    run.manager[i] = Period(run.old, Epoch2025, "v1", <<run.cutoff>>)
            /\ \E i \in DOMAIN run.manager :
                    run.manager[i] = Period(run.new, run.cutoff, "v1", NoEnd)
            /\ \A i \in DOMAIN rows :
                    IF parse_timestamp(rows[i].synced_at).t >= Epoch2025
                    THEN by_registry[i] = by_cutoff[i]
                    ELSE by_registry[i] = UnknownLabel

=============================================================================
